---- MODULE Spec2Model ----
(***************************************************************************)
(* Model of src/app.py: the "Auto-grader Set Up" form.  A string is a      *)
(* sequence of one-character strings.  One run of the script is one step:  *)
(* the form's four raw values go in, the error messages shown by st.error  *)
(* and the script rendered by st.code / st.download_button come out.       *)
(***************************************************************************)
EXTENDS Integers, Sequences, FiniteSets, TLC

VARIABLES email_raw, first_raw, middle_raw, last_raw,
          submitted,
          email, first, middle, last,
          shown, sql_out, download,
          value, result, called

vars == <<email_raw, first_raw, middle_raw, last_raw, submitted,
          email, first, middle, last, shown, sql_out, download,
          value, result, called>>

page == <<email_raw, first_raw, middle_raw, last_raw, submitted,
          email, first, middle, last, shown, sql_out, download>>

fn == <<value, result, called>>

(* ------------------------------ bounds --------------------------------- *)
MaxNameLen == 2
MaxEmailLen == 5
MaxValueLen == 4

(* ---------------------------- characters ------------------------------- *)
Whitespace == {" ", "\t", "\n"}
Lower == {"a"}
Upper == {"A"}
AsciiUpper == {"A"}
Quote == "'"

NameChars == {"a", "A", " ", "'"}
EmailChars == {"x", "@", ".", " "}
ValueChars == {"a", " ", "\t", "'"}

Strings(chars, n) == UNION {[1..k -> chars] : k \in 0..n}

SetMin(S) == CHOOSE x \in S : \A y \in S : x <= y
SetMax(S) == CHOOSE x \in S : \A y \in S : x >= y

(* ------------------------- character classes --------------------------- *)
isspace(ch) == ch \in Whitespace
isalpha(ch) == ch \in Lower \cup Upper
ch_islower(ch) == ch \in Lower
ch_isupper(ch) == ch \in Upper

\* str.islower(): at least one cased character and no uppercase one
str_islower(s) ==
  /\ \E i \in 1..Len(s) : s[i] \in Lower \cup Upper
  /\ \A i \in 1..Len(s) : s[i] \notin Upper

(* ------------------------------ messages ------------------------------- *)
MsgEmailRequired == "Email is required."
MsgEmailInvalid == "Email doesn't look valid (expected something like name@company.com)."
MsgFirstRequired == "First name is required."
MsgLastRequired == "Last name is required."
MsgFirstCase == "First name cannot be all lowercase or all uppercase."
MsgMiddleCase == "Middle name cannot be all lowercase or all uppercase."
MsgLastCase == "Last name cannot be all lowercase or all uppercase."
single_char_msg == "A single character is not allowed, please input a space after to proceed."

(* ----------------------------- sql literal ----------------------------- *)
RECURSIVE replace_quote(_)
\* value.replace("'", "''")
replace_quote(s) ==
  IF s = <<>> THEN <<>>
  ELSE (IF Head(s) = Quote THEN <<Quote, Quote>> ELSE <<Head(s)>>)
       \o replace_quote(Tail(s))

sql_string_literal_noescape(v) == <<Quote>> \o v \o <<Quote>>

sql_string_literal(v) == <<Quote>> \o replace_quote(v) \o <<Quote>>

(* ---------------------------- normalization ---------------------------- *)
\* str.strip()
strip(s) ==
  LET keep == {i \in 1..Len(s) : ~isspace(s[i])}
  IN  IF keep = {} THEN <<>> ELSE SubSeq(s, SetMin(keep), SetMax(keep))

RECURSIVE re_sub_ws(_)
\* re.sub(r"\s+", " ", s): each maximal whitespace run becomes one space
re_sub_ws(s) ==
  IF s = <<>> THEN <<>>
  ELSE IF isspace(Head(s))
       THEN LET rest == {i \in 1..Len(s) : ~isspace(s[i])}
            IN  <<" ">> \o (IF rest = {} THEN <<>>
                            ELSE re_sub_ws(SubSeq(s, SetMin(rest), Len(s))))
       ELSE <<Head(s)>> \o re_sub_ws(Tail(s))

normalize_space_nostrip(v) == re_sub_ws(v)

normalize_space(v) == re_sub_ws(strip(v))

(* ------------------------------- email --------------------------------- *)
EmailClass(ch) == ~isspace(ch) /\ ch # "@"

AllEmailClass(s, a, b) == a <= b /\ \A k \in a..b : EmailClass(s[k])

\* "$" matches at the end of the string or just before a final newline
AtDollar(s, k) == k = Len(s) \/ (k = Len(s) - 1 /\ s[Len(s)] = "\n")

EMAIL_RE_match_nodot(s) ==
  \E i \in 1..Len(s) : \E e \in 1..Len(s) :
     /\ s[i] = "@"
     /\ AllEmailClass(s, 1, i - 1)
     /\ AllEmailClass(s, i + 1, e)
     /\ AtDollar(s, e)

\* EMAIL_RE.match(s) for ^[^\s@]+@[^\s@]+\.[^\s@]+$
EMAIL_RE_match(s) ==
  \E i \in 1..Len(s) : \E j \in 1..Len(s) : \E e \in 1..Len(s) :
     /\ s[i] = "@"
     /\ s[j] = "."
     /\ AllEmailClass(s, 1, i - 1)
     /\ AllEmailClass(s, i + 1, j - 1)
     /\ AllEmailClass(s, j + 1, e)
     /\ AtDollar(s, e)

(* ----------------------------- name rules ------------------------------ *)
looks_like_bad_name_case_lt1(v0) ==
  LET v == normalize_space(v0)
      letters == SelectSeq(v, isalpha)
  IN  IF Len(letters) < 1 THEN FALSE
      ELSE \/ \A k \in 1..Len(letters) : ch_islower(letters[k])
           \/ \A k \in 1..Len(letters) : ch_isupper(letters[k])

looks_like_bad_name_case(v0) ==
  LET v == normalize_space(v0)
      letters == SelectSeq(v, isalpha)
  IN  IF Len(letters) <= 1 THEN FALSE
      ELSE \/ \A k \in 1..Len(letters) : ch_islower(letters[k])
           \/ \A k \in 1..Len(letters) : ch_isupper(letters[k])

is_allowed_single_initial_bare(raw_value) ==
  /\ Len(raw_value) >= 1
  /\ raw_value[1] \in AsciiUpper
  /\ \A k \in 2..Len(raw_value) : isspace(raw_value[k])

is_allowed_single_initial_never(raw_value) == FALSE

\* re.fullmatch(r"[A-Z]\s+", raw_value)
is_allowed_single_initial(raw_value) ==
  /\ Len(raw_value) >= 2
  /\ raw_value[1] \in AsciiUpper
  /\ \A k \in 2..Len(raw_value) : isspace(raw_value[k])

(* --------------------------- the three stages -------------------------- *)
Msg(cond, m) == IF cond THEN <<m>> ELSE <<>>

\* presence/shape: "errors"
errors(email_n, first_n, last_n) ==
  (IF email_n = <<>> THEN <<MsgEmailRequired>>
   ELSE IF ~EMAIL_RE_match(email_n) THEN <<MsgEmailInvalid>>
   ELSE <<>>)
  \o Msg(first_n = <<>>, MsgFirstRequired)
  \o Msg(last_n = <<>>, MsgLastRequired)

name_case_errors_nospecial(first_n, m_raw, middle_n, last_n) ==
     Msg(looks_like_bad_name_case(first_n), MsgFirstCase)
  \o Msg(middle_n # <<>> /\ looks_like_bad_name_case(middle_n), MsgMiddleCase)
  \o Msg(looks_like_bad_name_case(last_n), MsgLastCase)

\* casing: "name_case_errors"
name_case_errors(first_n, m_raw, middle_n, last_n) ==
     Msg(Len(first_n) = 1 /\ str_islower(first_n), MsgFirstCase)
  \o Msg(m_raw # <<>> /\ Len(middle_n) = 1 /\ str_islower(middle_n), MsgMiddleCase)
  \o Msg(Len(last_n) = 1 /\ str_islower(last_n), MsgLastCase)
  \o Msg(looks_like_bad_name_case(first_n), MsgFirstCase)
  \o Msg(middle_n # <<>> /\ looks_like_bad_name_case(middle_n), MsgMiddleCase)
  \o Msg(looks_like_bad_name_case(last_n), MsgLastCase)

\* single character: "single_char_errors"
single_char_errors(f_raw, first_n, m_raw, middle_n, l_raw, last_n) ==
     Msg(Len(first_n) = 1 /\ ~str_islower(first_n)
           /\ ~is_allowed_single_initial(f_raw), single_char_msg)
  \o Msg(m_raw # <<>> /\ Len(middle_n) = 1 /\ ~str_islower(middle_n)
           /\ ~is_allowed_single_initial(m_raw), single_char_msg)
  \o Msg(Len(last_n) = 1 /\ ~str_islower(last_n)
           /\ ~is_allowed_single_initial(l_raw), single_char_msg)

\* first_sql = first_raw or ""  (likewise middle_sql, last_sql)
sql_value_normalized(raw) == normalize_space(raw)

sql_value(raw) == raw

\* the four literals interpolated into the greeting statement; the text
\* around them is fixed
greeting_call_sql(email_n, first_sql, middle_sql, last_sql) ==
  << sql_string_literal(email_n), sql_string_literal(first_sql),
     sql_string_literal(middle_sql), sql_string_literal(last_sql) >>

NoScript == <<>>

\* st.error / st.stop: what the run leaves on the page
Rendered_nostop(errs, nce, sce, script) ==
  IF errs # <<>> THEN [shown |-> errs \o nce, script |-> NoScript]
  ELSE IF nce # <<>> THEN [shown |-> nce, script |-> NoScript]
  ELSE IF sce # <<>> THEN [shown |-> <<single_char_msg>>, script |-> script]
  ELSE [shown |-> <<>>, script |-> script]

Rendered(errs, nce, sce, script) ==
  IF errs # <<>> THEN [shown |-> errs, script |-> NoScript]
  ELSE IF nce # <<>> THEN [shown |-> nce, script |-> NoScript]
  ELSE IF sce # <<>> THEN [shown |-> <<single_char_msg>>, script |-> NoScript]
  ELSE [shown |-> <<>>, script |-> script]

(* ------------------------------ the page ------------------------------- *)
InitPage ==
  /\ email_raw = <<>> /\ first_raw = <<>> /\ middle_raw = <<>> /\ last_raw = <<>>
  /\ submitted = FALSE
  /\ email = <<>> /\ first = <<>> /\ middle = <<>> /\ last = <<>>
  /\ shown = <<>> /\ sql_out = NoScript /\ download = NoScript

InitFn == value = <<>> /\ result = <<>> /\ called = "none"

\* one run of the script after "Generate SQL" with the given field values
Run(e, f, m, l) ==
  /\ email_raw' = e /\ first_raw' = f /\ middle_raw' = m /\ last_raw' = l
  /\ submitted' = TRUE
  /\ email' = normalize_space(e)
  /\ first' = normalize_space(f)
  /\ middle' = normalize_space(m)
  /\ last' = normalize_space(l)
  /\ \E out \in { Rendered(errors(email', first', last'),
                            name_case_errors(first', m, middle', last'),
                            single_char_errors(f, first', m, middle', l, last'),
                            greeting_call_sql(email', sql_value(f), sql_value(m),
                                              sql_value(l))) } :
       /\ shown' = out.shown
       /\ sql_out' = out.script
       /\ download' = out.script
  /\ UNCHANGED fn

EmailInputs ==
  { <<>>, <<"x", "@", "y", ".", "c">>, <<" ", "x", "@", "y", ".", "c", " ">>,
    <<"x", "@", "y">> }

NameInputs == Strings(NameChars, MaxNameLen)

\* the optional field: empty, blank, one letter, the workaround, two letters
MiddleInputs ==
  { <<>>, <<" ">>, <<"a">>, <<"A">>, <<"'">>, <<"A", " ">>, <<"A", "a">> }

\* the user fills in the freshly loaded form and presses "Generate SQL"
Submit ==
  /\ ~submitted
  /\ \E e \in EmailInputs : \E f \in NameInputs : \E m \in MiddleInputs :
       \E l \in NameInputs : Run(e, f, m, l)

AddSpace(raw, doit) == IF doit THEN Append(raw, " ") ELSE raw

\* after the single-character message the user appends a space to some of
\* the name fields that hold a single character and presses "Generate SQL"
\* again
ResubmitWithSpace ==
  /\ submitted
  /\ shown = <<single_char_msg>>
  /\ \E S \in (SUBSET {"first", "middle", "last"}) \ {{}} :
       /\ "first" \in S => Len(first) = 1 /\ Len(first_raw) <= MaxNameLen
       /\ "middle" \in S => Len(middle) = 1 /\ Len(middle_raw) <= MaxNameLen
       /\ "last" \in S => Len(last) = 1 /\ Len(last_raw) <= MaxNameLen
       /\ Run(email_raw, AddSpace(first_raw, "first" \in S),
              AddSpace(middle_raw, "middle" \in S),
              AddSpace(last_raw, "last" \in S))

\* the page is loaded afresh: the script stops at "if not submitted"
Reload ==
  /\ submitted
  /\ email_raw' = <<>> /\ first_raw' = <<>> /\ middle_raw' = <<>> /\ last_raw' = <<>>
  /\ submitted' = FALSE
  /\ email' = <<>> /\ first' = <<>> /\ middle' = <<>> /\ last' = <<>>
  /\ shown' = <<>> /\ sql_out' = NoScript /\ download' = NoScript
  /\ UNCHANGED fn

Init == InitPage /\ InitFn

Next == Submit \/ ResubmitWithSpace \/ Reload

Spec == Init /\ [][Next]_vars

(* ----------------- the email check over all short emails --------------- *)
EmailNameInputs == { <<>>, <<"A", "a">> }

SubmitEmail ==
  /\ ~submitted
  /\ \E e \in Strings(EmailChars, MaxEmailLen) : \E f \in EmailNameInputs :
       \E l \in EmailNameInputs : Run(e, f, <<>>, l)

NextEmail == SubmitEmail \/ Reload

SpecEmail == Init /\ [][NextEmail]_vars

(* ------------------------- the pure functions -------------------------- *)
InitValue ==
  /\ InitPage
  /\ value \in Strings(ValueChars, MaxValueLen)
  /\ result = <<>>
  /\ called = "none"

CallNormalize ==
  /\ called = "none"
  /\ result' = normalize_space(value)
  /\ called' = "normalize_space"
  /\ UNCHANGED <<value, page>>

CallSqlLiteral ==
  /\ called = "none"
  /\ result' = sql_string_literal(value)
  /\ called' = "sql_string_literal"
  /\ UNCHANGED <<value, page>>

NextFn == CallNormalize \/ CallSqlLiteral

SpecFn == InitValue /\ [][NextFn]_vars

(* ===================== properties of the program ======================= *)
Range(seq) == {seq[k] : k \in 1..Len(seq)}
Count(seq, m) == Cardinality({k \in 1..Len(seq) : seq[k] = m})

PresenceMsgs == {MsgEmailRequired, MsgEmailInvalid, MsgFirstRequired, MsgLastRequired}
CasingMsgs == {MsgFirstCase, MsgMiddleCase, MsgLastCase}

\* local@domain: no whitespace, exactly one "@", a non-empty local part and
\* a "." in the domain with a character before it and one after it
ShapeOK(s) ==
  /\ s # <<>>
  /\ \A k \in 1..Len(s) : s[k] \notin Whitespace
  /\ Cardinality({k \in 1..Len(s) : s[k] = "@"}) = 1
  /\ LET at == CHOOSE k \in 1..Len(s) : s[k] = "@"
     IN  /\ at > 1
         /\ \E d \in (at + 2)..(Len(s) - 1) : s[d] = "."

LetterIdx(s) == {k \in 1..Len(s) : s[k] \in Lower \cup Upper}

\* a single lowercase character, or two or more letters all of one case
Offends(norm) ==
  \/ Len(norm) = 1 /\ norm[1] \in Lower
  \/ /\ Cardinality(LetterIdx(norm)) >= 2
     /\ \/ \A k \in LetterIdx(norm) : norm[k] \in Lower
        \/ \A k \in LetterIdx(norm) : norm[k] \in Upper

\* one uppercase ASCII letter followed by one or more whitespace characters
WorkaroundShape(raw) ==
  \E n \in 1..Len(raw) :
     /\ Len(raw) = n + 1
     /\ raw[1] \in AsciiUpper
     /\ \A k \in 2..(n + 1) : raw[k] \in Whitespace

Triggers(raw, norm) ==
  Len(norm) = 1 /\ norm[1] \notin Lower /\ ~WorkaroundShape(raw)

PresenceFails == ~ShapeOK(email) \/ first = <<>> \/ last = <<>>
CasingFails ==
  Offends(first) \/ (middle_raw # <<>> /\ Offends(middle)) \/ Offends(last)
SingleFails ==
  \/ Triggers(first_raw, first)
  \/ middle_raw # <<>> /\ Triggers(middle_raw, middle)
  \/ Triggers(last_raw, last)

PassedPresence == submitted /\ Range(shown) \cap PresenceMsgs = {}
PassedCasing == PassedPresence /\ Range(shown) \cap CasingMsgs = {}
Success == submitted /\ shown = <<>> /\ sql_out # NoScript /\ download # NoScript

RECURSIVE Undouble(_)
\* each doubled quote read back as one quote
Undouble(s) ==
  IF s = <<>> THEN <<>>
  ELSE IF Len(s) >= 2 /\ s[1] = Quote /\ s[2] = Quote
       THEN <<Quote>> \o Undouble(SubSeq(s, 3, Len(s)))
       ELSE <<Head(s)>> \o Undouble(Tail(s))

Interior(lit) == SubSeq(lit, 2, Len(lit) - 1)
Unquote(lit) == Undouble(Interior(lit))

Nth(S, n) == CHOOSE k \in S : Cardinality({j \in S : j <= k}) = n
Pick(s, S) == [n \in 1..Cardinality(S) |-> s[Nth(S, n)]]

\* every maximal whitespace run replaced by one space, then the ends trimmed
CollapseThenTrim(s) ==
  LET heads == {k \in 1..Len(s) :
                  s[k] \notin Whitespace \/ k = 1 \/ s[k - 1] \notin Whitespace}
      c == [n \in 1..Cardinality(heads) |->
              IF s[Nth(heads, n)] \in Whitespace THEN " " ELSE s[Nth(heads, n)]]
      lo == IF c # <<>> /\ c[1] = " " THEN 2 ELSE 1
      hi == IF c # <<>> /\ c[Len(c)] = " " THEN Len(c) - 1 ELSE Len(c)
  IN  SubSeq(c, lo, hi)

\* C1: every submission ends in exactly one of four outcomes, chosen by the
\* first of presence/shape, casing, single-character that finds an error;
\* all messages shown belong to that stage, and the script is displayed and
\* offered for download exactly when no stage found an error.
C1_OneOutcome ==
  submitted =>
    /\ PresenceFails =>
         shown # <<>> /\ Range(shown) \subseteq PresenceMsgs /\ sql_out = NoScript
    /\ (~PresenceFails /\ CasingFails) =>
         shown # <<>> /\ Range(shown) \subseteq CasingMsgs /\ sql_out = NoScript
    /\ (~PresenceFails /\ ~CasingFails /\ SingleFails) =>
         shown # <<>> /\ Range(shown) = {single_char_msg} /\ sql_out = NoScript
    /\ (~PresenceFails /\ ~CasingFails /\ ~SingleFails) =>
         shown = <<>> /\ sql_out # NoScript
    /\ download = sql_out
    /\ (sql_out # NoScript) <=> (shown = <<>>)

\* a casing halt although another field would have drawn the single-character message
C1_Witness ==
  /\ submitted /\ ~PresenceFails /\ CasingFails /\ SingleFails
  /\ shown = <<MsgFirstCase>> /\ sql_out = NoScript

\* C2: past the presence stage, a field whose normalized value is a single
\* lowercase character halts the run with that field's casing message and the
\* single-character message is not shown.
C2_LowercaseInitialIsCasing ==
  PassedPresence =>
    /\ (Len(first) = 1 /\ first[1] \in Lower) =>
         /\ MsgFirstCase \in Range(shown)
         /\ single_char_msg \notin Range(shown) /\ sql_out = NoScript
    /\ (middle_raw # <<>> /\ Len(middle) = 1 /\ middle[1] \in Lower) =>
         /\ MsgMiddleCase \in Range(shown)
         /\ single_char_msg \notin Range(shown) /\ sql_out = NoScript
    /\ (Len(last) = 1 /\ last[1] \in Lower) =>
         /\ MsgLastCase \in Range(shown)
         /\ single_char_msg \notin Range(shown) /\ sql_out = NoScript

\* "a " in the first field, "A" in the last: only the casing message appears
C2_Witness ==
  /\ PassedPresence /\ first_raw = <<"a", " ">> /\ last_raw = <<"A">>
  /\ shown = <<MsgFirstCase>>

\* C3: past presence and casing, the single-character message is shown iff
\* some counted field has one normalized character that is not lowercase and
\* a raw value that is not the workaround; it is shown once and nothing else
\* is rendered.
C3_SingleCharMessage ==
  PassedCasing =>
    /\ (single_char_msg \in Range(shown)) <=> SingleFails
    /\ SingleFails =>
         shown = <<single_char_msg>> /\ sql_out = NoScript /\ download = NoScript

\* two fields trigger it, one message
C3_Witness ==
  /\ PassedCasing /\ first_raw = <<"A">> /\ last_raw = <<"'">>
  /\ shown = <<single_char_msg>>

\* C4 as stated: on success all four interpolated values are the raw field
\* contents as typed.
C4_AllRaw ==
  Success =>
    /\ Unquote(sql_out[1]) = email_raw
    /\ Unquote(sql_out[2]) = first_raw
    /\ Unquote(sql_out[3]) = middle_raw
    /\ Unquote(sql_out[4]) = last_raw

\* C4 amended: on success the three name values are the raw field contents
\* as typed and the email value is the normalized email.
C4_NamesRawEmailNormalized ==
  Success =>
    /\ Len(sql_out) = 4
    /\ Unquote(sql_out[1]) = CollapseThenTrim(email_raw)
    /\ Unquote(sql_out[2]) = first_raw
    /\ Unquote(sql_out[3]) = middle_raw
    /\ Unquote(sql_out[4]) = last_raw

\* a success where the typed first name and the typed email both differ from
\* their normalized forms
C4_Witness ==
  Success /\ first_raw # first /\ email_raw # email /\ Quote \in Range(last_raw)

\* C5: a name field typed as one uppercase ASCII letter plus whitespace draws
\* neither its casing message nor the single-character message, and with a
\* valid email and valid other names the run succeeds with the raw value in
\* the literal.
C5_Workaround ==
  submitted =>
    /\ WorkaroundShape(first_raw) =>
         /\ MsgFirstCase \notin Range(shown)
         /\ single_char_msg \in Range(shown) =>
              \/ middle_raw # <<>> /\ Triggers(middle_raw, middle)
              \/ Triggers(last_raw, last)
         /\ (/\ ShapeOK(email) /\ last # <<>>
             /\ ~Offends(last) /\ ~Triggers(last_raw, last)
             /\ middle_raw # <<>> => ~Offends(middle) /\ ~Triggers(middle_raw, middle))
            => Success /\ sql_out[2] = <<Quote>> \o first_raw \o <<Quote>>
    /\ WorkaroundShape(middle_raw) =>
         /\ MsgMiddleCase \notin Range(shown)
         /\ single_char_msg \in Range(shown) =>
              Triggers(first_raw, first) \/ Triggers(last_raw, last)
         /\ (/\ ShapeOK(email) /\ first # <<>> /\ last # <<>>
             /\ ~Offends(first) /\ ~Triggers(first_raw, first)
             /\ ~Offends(last) /\ ~Triggers(last_raw, last))
            => Success /\ sql_out[3] = <<Quote>> \o middle_raw \o <<Quote>>
    /\ WorkaroundShape(last_raw) =>
         /\ MsgLastCase \notin Range(shown)
         /\ single_char_msg \in Range(shown) =>
              \/ middle_raw # <<>> /\ Triggers(middle_raw, middle)
              \/ Triggers(first_raw, first)
         /\ (/\ ShapeOK(email) /\ first # <<>>
             /\ ~Offends(first) /\ ~Triggers(first_raw, first)
             /\ middle_raw # <<>> => ~Offends(middle) /\ ~Triggers(middle_raw, middle))
            => Success /\ sql_out[4] = <<Quote>> \o last_raw \o <<Quote>>

\* 'A ' in the first field reaches the script with its trailing space
C5_Witness ==
  /\ Success /\ first_raw = <<"A", " ">>
  /\ sql_out[2] = <<Quote, "A", " ", Quote>>

\* C6: the email passes the presence stage iff it is non-empty and has the
\* local@domain shape; an empty one draws only the "required" message and a
\* non-empty non-matching one only the "doesn't look valid" message.
C6_EmailShape ==
  submitted =>
    /\ email = <<>> =>
         MsgEmailRequired \in Range(shown) /\ MsgEmailInvalid \notin Range(shown)
    /\ (email # <<>> /\ ~ShapeOK(email)) =>
         MsgEmailInvalid \in Range(shown) /\ MsgEmailRequired \notin Range(shown)
    /\ ShapeOK(email) =>
         MsgEmailInvalid \notin Range(shown) /\ MsgEmailRequired \notin Range(shown)
    /\ Count(shown, MsgEmailRequired) + Count(shown, MsgEmailInvalid) <= 1

\* a five-character email is accepted and the run succeeds
C6_Witness ==
  /\ Success /\ email_raw = <<"x", "@", "x", ".", "x">>

\* C7: normalize_space equals collapse-then-trim, its result has no leading,
\* trailing or doubled whitespace, and normalizing again changes nothing.
C7_Normalize ==
  called = "normalize_space" =>
    /\ result = CollapseThenTrim(value)
    /\ result # <<>> => result[1] \notin Whitespace /\ result[Len(result)] \notin Whitespace
    /\ \A k \in 1..(Len(result) - 1) :
         ~(result[k] \in Whitespace /\ result[k + 1] \in Whitespace)
    /\ normalize_space(result) = result

\* an inner tab-space run becomes one space
C7_Witness ==
  /\ called = "normalize_space"
  /\ value = <<"a", "\t", " ", "a">>
  /\ result = <<"a", " ", "a">>

EvenRuns(s) ==
  \A a \in 1..Len(s) : \A b \in a..Len(s) :
    (/\ \A k \in a..b : s[k] = Quote
     /\ (a = 1 \/ s[a - 1] # Quote)
     /\ (b = Len(s) \/ s[b + 1] # Quote))
    => (b - a + 1) % 2 = 0

\* C8: the literal is quote, value with each quote doubled, quote: the
\* interior has only even runs of quotes and un-doubling it gives the value.
C8_SqlLiteral ==
  called = "sql_string_literal" =>
    /\ Len(result) >= 2
    /\ result[1] = Quote /\ result[Len(result)] = Quote
    /\ Len(Interior(result)) = Len(value) + Count(value, Quote)
    /\ EvenRuns(Interior(result))
    /\ Undouble(Interior(result)) = value

\* a'a becomes 'a''a'
C8_Witness ==
  /\ called = "sql_string_literal"
  /\ value = <<"a", Quote, "a">>
  /\ result = <<Quote, "a", Quote, Quote, "a", Quote>>

\* C9: past the presence stage each offending field has exactly one casing
\* message and every other field none; middle counts only when typed.
C9_OneCasingMessagePerField ==
  PassedPresence =>
    /\ Count(shown, MsgFirstCase) = (IF Offends(first) THEN 1 ELSE 0)
    /\ Count(shown, MsgMiddleCase) =
         (IF middle_raw # <<>> /\ Offends(middle) THEN 1 ELSE 0)
    /\ Count(shown, MsgLastCase) = (IF Offends(last) THEN 1 ELSE 0)

\* a single lowercase letter and an all-uppercase name, one message each
C9_Witness ==
  /\ PassedPresence /\ first_raw = <<"a">> /\ last_raw = <<"A", "A">>
  /\ shown = <<MsgFirstCase, MsgLastCase>>

\* C10: after a halt with the single-character message, resubmitting with one
\* space appended to every field that triggered it does not show the message
\* again and reaches the script.
C10_SpaceAfterProceeds ==
  [][ ( /\ submitted /\ shown = <<single_char_msg>>
        /\ submitted'
        /\ email_raw' = email_raw
        /\ first_raw' = AddSpace(first_raw, Triggers(first_raw, first))
        /\ middle_raw' = AddSpace(middle_raw,
                                  middle_raw # <<>> /\ Triggers(middle_raw, middle))
        /\ last_raw' = AddSpace(last_raw, Triggers(last_raw, last)) )
      => ( single_char_msg \notin Range(shown') /\ sql_out' # NoScript ) ]_vars

====
